---- MODULE Spec2Model ----
(***************************************************************************)
(* Model of the job execution lifecycle of the gryt CI agent               *)
(* (src/agent/executor.py, src/agent/main.py).                             *)
(*                                                                         *)
(* Each slot j is one HTTP request to POST /jobs/execute, handled by       *)
(* DockerJobExecutor.execute_job.  The handler is split into one step per  *)
(* phase of execute_job, because every phase is a blocking call to the     *)
(* filesystem, git or the Docker daemon during which other executions may  *)
(* run.  Text (stdout, stderr, messages) is a sequence of characters.      *)
(***************************************************************************)
EXTENDS Integers, Sequences, FiniteSets, TLC

VARIABLES
    now,        \* the wall clock read by datetime.utcnow()
    fs,         \* the filesystem below workspace_dir: a set of <<workspace, entry>>
    images,     \* the images present in the local Docker daemon
    pc,         \* pc[j]: the phase execution j is about to perform
    req,        \* req[j]: the JobExecutionRequest of execution j
    workspace,  \* workspace[j]: the local variable `workspace` (NoPath for None)
    start_time, \* start_time[j]
    result,     \* result[j]: the record computed by the try / except branch
    ret,        \* ret[j]: what execute_job handed back to its caller
    http,       \* http[j]: the HTTP answer of the endpoint
    hist,       \* hist[j]: per-execution log of what was attempted (observation only)
    environ,    \* os.environ of the agent process
    agent,      \* the lifecycle of the FastAPI application
    json        \* one captured output and its normalizations (SpecJson only)

vars == <<now, fs, images, pc, req, workspace, start_time, result, ret, http, hist,
          environ, agent, json>>

\* What no step of a job changes.
static == <<environ, agent, json>>

---------------------------------------------------------------------------
(* Bounds *)

MaxTime == 2

\* Longest captured stdout of the normalization runs.
MaxLen == 4
ConcMaxTime == 1

Slots == {1, 2}

---------------------------------------------------------------------------
(* Values *)

NoPath == <<>>

\* A dict is a set of <<key, value>> pairs with distinct keys; NoneDict is
\* the value None of an Optional[Dict].
NoneDict == {<<"None">>}

NoReq ==
    [job_id |-> 0, git_url |-> <<>>, pipeline_b64 |-> "valid", docker_image |-> "None",
     github_token_encrypted |-> "None", env_vars |-> NoneDict, cpu_limit |-> "None",
     memory_limit |-> "None"]

default_image == "ghcr.io/epyklab/gryt/pipeline:latest"
CustomImage == "custom:1"
Images == {default_image, CustomImage}

\* A byte that is not valid UTF-8 (for instance 0xff).
BadByte == "\\xff"

JobIds == {7, 42}

\* A URL is the sequence of its pieces, the text "https://" being a piece of
\* its own wherever it occurs.
HttpsUrl == <<"https://", "host/repo.git">>
SshUrl == <<"git@host:repo.git">>
NestedUrl == <<"https://", "mirror/", "https://", "host/repo.git">>
NoUrl == <<>>

\* Optional[str] git_url: None and "" are both falsy.
GitUrls == {NoUrl, HttpsUrl}

\* The fields a request may leave out, left out.
Defaults ==
    [github_token_encrypted : {"None"}, env_vars : {NoneDict}, cpu_limit : {"None"},
     memory_limit : {"None"}]

\* The records r \cup d for r of R and d of D (disjoint fields).
With(R, D) ==
    { [f \in DOMAIN r \cup DOMAIN d |-> IF f \in DOMAIN r THEN r[f] ELSE d[f]] :
        <<r, d>> \in R \X D }

Requests ==
    With([job_id : JobIds, git_url : GitUrls, pipeline_b64 : {"valid", "invalid"},
          docker_image : {"None", CustomImage}], Defaults)

\* The requests of the two-execution specification.
ConcRequests ==
    With([job_id : {7}, git_url : GitUrls, pipeline_b64 : {"valid"},
          docker_image : {"None"}], Defaults)

---------------------------------------------------------------------------
(* Text and _clean_json_output *)

\* What a container can emit: raw byte strings.  Some are JSON documents with
\* superfluous whitespace, some are compact JSON, some are not JSON, and some
\* are not UTF-8.
RunOutputs ==
    { <<>>, <<"1">>, <<" ", "1", " ">>, <<"[", " ", "1", "]">>, <<"[", "]">>,
      <<"o", "k">>, <<"1", " ", "1">>, <<BadByte>>, <<"[", BadByte, "]">> }

\* What a failing container can leave on its stderr stream.
ErrPayloads == { <<>>, <<"E">>, <<"E", BadByte>> }

\* Exit statuses for which the Docker SDK raises ContainerError.
ExitStatuses == {1, 137}

\* The whitespace of the JSON grammar, which json.loads skips between tokens.
IsWs(c) == c = " "

\* A form feed: whitespace for str, not for the JSON grammar.
FormFeed == "\f"

\* str.isspace(): the characters that str.strip() removes.
IsSpace(c) == c \in {" ", FormFeed}

\* bytes.decode('utf-8') raises UnicodeDecodeError on an invalid byte.
Decodable(b) == \A i \in 1..Len(b) : b[i] # BadByte

\* str.strip()
RECURSIVE LStrip(_)
LStrip(s) == IF s # <<>> /\ IsSpace(Head(s)) THEN LStrip(Tail(s)) ELSE s

RECURSIVE RStrip(_)
RStrip(s) ==
    IF s # <<>> /\ IsSpace(s[Len(s)]) THEN RStrip(SubSeq(s, 1, Len(s) - 1)) ELSE s

Strip(s) == RStrip(LStrip(s))

\* Index of the first non-whitespace character of s at or after i.
RECURSIVE SkipWs(_, _)
SkipWs(s, i) == IF i <= Len(s) /\ IsWs(s[i]) THEN SkipWs(s, i + 1) ELSE i

\* Index after the run of digits of s that starts at i.
RECURSIVE SkipDigits(_, _)
SkipDigits(s, i) == IF i <= Len(s) /\ s[i] = "1" THEN SkipDigits(s, i + 1) ELSE i

ParseFail == [ok |-> FALSE, next |-> 0, out |-> <<>>]

\* json.loads followed by json.dumps(separators=(',', ':')) on the value of s
\* that starts at i: `out` is the compact serialization, `next` the index
\* after the value.  The documents of this model are integers (runs of the
\* digit 1) and arrays.
RECURSIVE ParseValue(_, _), ParseElems(_, _, _)
ParseValue(s, i) ==
    LET k == SkipWs(s, i) IN
    IF k > Len(s) THEN ParseFail
    ELSE IF s[k] = "1"
         THEN [ok |-> TRUE, next |-> SkipDigits(s, k), out |-> SubSeq(s, k, SkipDigits(s, k) - 1)]
    ELSE IF s[k] = "["
         THEN LET m == SkipWs(s, k + 1) IN
              IF m <= Len(s) /\ s[m] = "]"
              THEN [ok |-> TRUE, next |-> m + 1, out |-> <<"[", "]">>]
              ELSE ParseElems(s, k + 1, <<"[">>)
    ELSE ParseFail

\* The elements of an array after its opening bracket or after a comma; acc
\* is the serialization so far.
ParseElems(s, i, acc) ==
    LET v == ParseValue(s, i) IN
    IF ~v.ok THEN ParseFail
    ELSE LET m == SkipWs(s, v.next) IN
         IF m > Len(s) THEN ParseFail
         ELSE IF s[m] = "]" THEN [ok |-> TRUE, next |-> m + 1, out |-> acc \o v.out \o <<"]">>]
         ELSE IF s[m] = "," THEN ParseElems(s, m + 1, acc \o v.out \o <<",">>)
         ELSE ParseFail

\* json.loads(s) followed by json.dumps: one value, with nothing but JSON
\* whitespace around it, or JSONDecodeError.
LoadsDumps(s) ==
    LET v == ParseValue(s, 1)
    IN  IF v.ok /\ SkipWs(s, v.next) > Len(s) THEN v ELSE ParseFail

_clean_json_output(output) ==
    LET v == LoadsDumps(Strip(output))
    IN  IF v.ok THEN v.out ELSE output

---------------------------------------------------------------------------
(* Filesystem below workspace_dir *)

\* The workspace directory itself and the entries the agent looks at.
Root == <<>>
RepoDir == <<"repo">>
GitDir == <<"repo", ".git">>

Exists(f, ws, rel) == <<ws, rel>> \in f

\* f"job-{job_id}-{datetime.utcnow().timestamp()}" below workspace_dir
WorkspaceName(job_id, t) == <<job_id, t>>

\* A removal that empties the workspace but leaves its directory.
rmtree_contents_only(f, ws) == { p \in f : p[1] # ws \/ p[2] = Root }

\* shutil.rmtree(workspace), when it succeeds
rmtree(f, ws) == { p \in f : p[1] # ws }

\* workspace / "repo" if it exists, else workspace
TargetDir(f, ws) == IF Exists(f, ws, RepoDir) THEN RepoDir ELSE Root

\* A verification that looks at the target directory only.
CloneValid_dir_only(f, ws) == Exists(f, ws, RepoDir)

\* The post-clone verification of _clone_repository.
CloneValid(f, ws) == Exists(f, ws, RepoDir) /\ Exists(f, ws, GitDir)

---------------------------------------------------------------------------
(* Exceptions and result records *)

Exc(type, msg) == [type |-> type, msg |-> <<msg>>]

\* The exception classes that reach the handler of execute_job.
ExceptionTypes ==
    {"JobExecutionError", "OSError", "APIError", "UnicodeDecodeError", "RuntimeError",
     "ValueError", "InvalidToken"}

\* A handler that catches the agent's own exception class only.
Catches_own_only(type) == type = "JobExecutionError"

\* except Exception as e
Catches(type) == type \in ExceptionTypes

\* datetime.isoformat()
isoformat(t) == <<"iso", t>>

NoResult ==
    [kind |-> "none", success |-> FALSE, exit_code |-> 0, stdout |-> <<>>,
     stderr |-> <<>>, duration_seconds |-> 0, started_at |-> <<>>,
     completed_at |-> <<>>, error |-> <<>>, exc |-> "none"]

\* The dict of the except branch of execute_job.
FailureResult(e, start, end) ==
    [kind |-> "return", success |-> FALSE, exit_code |-> -1, stdout |-> <<>>,
     stderr |-> e.msg, duration_seconds |-> end - start,
     started_at |-> isoformat(start), completed_at |-> isoformat(end),
     error |-> e.msg, exc |-> "none"]

\* The dict of _run_in_container completed by the try branch of execute_job.
\* The key "error" is absent from it (<<>>).
RunResult(success, exit_code, stdout, stderr, start, end) ==
    [kind |-> "return", success |-> success, exit_code |-> exit_code,
     stdout |-> stdout, stderr |-> stderr, duration_seconds |-> end - start,
     started_at |-> isoformat(start), completed_at |-> isoformat(end),
     error |-> <<>>, exc |-> "none"]

\* An exception that no except clause of execute_job catches.
Propagates(e) == [NoResult EXCEPT !.kind = "raise", !.exc = e.type, !.error = e.msg]

\* What the try statement of execute_job yields for an exception e.
OnException(e, start, end) ==
    IF Catches(e.type) THEN FailureResult(e, start, end) ELSE Propagates(e)

\* A finally block that lets a cleanup failure escape.
AfterFinally_escapes(res, cleanupFailed) ==
    IF cleanupFailed
    THEN [NoResult EXCEPT !.kind = "raise", !.exc = "OSError"]
    ELSE res

\* What execute_job hands to its caller once the finally block is over: the
\* inner try / except of the finally block swallows a cleanup failure.
AfterFinally(res, cleanupFailed) == res

NoHttp == [status |-> 0, body |-> <<>>]

\* The endpoint of main.py: JobExecutionResponse for a returned dict,
\* HTTPException(500) for an exception.
Respond(job_id, r) ==
    IF r.kind = "return"
    THEN [status |-> 200,
          body |-> <<[job_id |-> job_id, success |-> r.success, exit_code |-> r.exit_code,
                      stdout |-> r.stdout, stderr |-> r.stderr,
                      duration_seconds |-> r.duration_seconds,
                      started_at |-> r.started_at, completed_at |-> r.completed_at,
                      error |-> r.error]>>]
    ELSE [status |-> 500, body |-> <<>>]

\* No directory (yet).
NoDir == <<"none">>

NoHist ==
    [phases |-> <<>>, failed |-> "none", msg |-> <<>>, clones |-> 0,
     clone |-> "none", url |-> <<>>, decrypt |-> "none", lookup |-> "none",
     pulls |-> <<>>, ran |-> "none", present |-> FALSE, exit |-> <<>>,
     cleanup |-> "none", wrote |-> NoDir, bound |-> NoDir, found |-> FALSE,
     environment |-> {}, nano_cpus |-> <<>>, mem_limit |-> <<>>,
     fix |-> "none", rmtree |-> "none", x_api_key |-> <<>>]

---------------------------------------------------------------------------
(* Initial state: the agent is ready, no request has arrived *)

\* GRYT_ENCRYPTION_KEY is set to a Fernet key, or is not set.
\* AGENT_API_KEY is configured.
ApiKey == "secret"

Environs == [GRYT_ENCRYPTION_KEY : {"key", "unset"}, AGENT_API_KEY : {ApiKey}]

\* AGENT_API_KEY is configured, is not set, or is set to the empty string.
AuthEnvirons == [GRYT_ENCRYPTION_KEY : {"key"}, AGENT_API_KEY : {ApiKey, "unset", ""}]

\* The X-API-Key header of a request: the key, another text, or empty.
ApiKeyHeaders == {ApiKey, "wrong", ""}

NoJson == [stage |-> "off", output |-> <<>>, once |-> <<>>, twice |-> <<>>]

Init ==
    /\ environ \in Environs
    /\ agent = "starting"
    /\ json = NoJson
    /\ now = 0
    /\ fs = {}
    /\ images \in SUBSET Images
    /\ pc = [j \in Slots |-> "idle"]
    /\ req = [j \in Slots |-> NoReq]
    /\ workspace = [j \in Slots |-> NoPath]
    /\ start_time = [j \in Slots |-> 0]
    /\ result = [j \in Slots |-> NoResult]
    /\ ret = [j \in Slots |-> NoResult]
    /\ http = [j \in Slots |-> NoHttp]
    /\ hist = [j \in Slots |-> NoHist]

\* The wall clock advances (up to T).
Tick(T) ==
    /\ now < T
    /\ now' = now + 1
    /\ UNCHANGED <<fs, images, pc, req, workspace, start_time, result, ret, http, hist>>
    /\ UNCHANGED static

\* The wall clock is set back (an NTP step, settimeofday, a restored VM):
\* datetime.utcnow() reads the system's real-time clock, which is not
\* monotonic.
ClockStepBack ==
    /\ now > 0
    /\ \E t \in 0..(now - 1) : now' = t
    /\ UNCHANGED <<fs, images, pc, req, workspace, start_time, result, ret, http, hist>>
    /\ UNCHANGED static

\* lifespan(app): the startup builds the executor, whose constructor pings
\* the Docker daemon; the application serves requests only when that
\* succeeded.
Lifespan ==
    /\ agent = "starting"
    /\ \/ agent' = "ready"
       \/ agent' = "failed"     \* JobExecutionError("Failed to connect to Docker")
    /\ UNCHANGED <<now, fs, images, pc, req, workspace, start_time, result, ret, http,
                   hist, environ, json>>

Log(j, phase) == [hist[j] EXCEPT !.phases = Append(@, phase)]

\* A phase of execution j raised e: the except branch (or the propagation)
\* of execute_job, which samples end_time, and then the finally block.
Abort(j, e, h) ==
    /\ result' = [result EXCEPT ![j] = OnException(e, start_time[j], now)]
    /\ hist' = [hist EXCEPT ![j] = [h EXCEPT !.failed = h.phases[Len(h.phases)],
                                            !.msg = e.msg,
                                            !.phases = Append(h.phases, "finalize")]]
    /\ pc' = [pc EXCEPT ![j] = "cleanup"]

\* POST /jobs/execute arrives with request r; execute_job is entered and
\* samples start_time.
\* A key check that accepts every header once a key is configured.
verify_api_key_no_compare(x_api_key, env) ==
    IF env.AGENT_API_KEY \in {"unset", ""} THEN 500 ELSE 200

\* verify_api_key: the status of the HTTPException it raises, or 200 when it
\* returns.  `not expected_key` holds for None and for the empty string.
verify_api_key(x_api_key, env) ==
    IF env.AGENT_API_KEY \in {"unset", ""} THEN 500
    ELSE IF x_api_key # env.AGENT_API_KEY THEN 401
    ELSE 200

Submit(j, r, x_api_key) ==
    /\ agent = "ready"
    /\ pc[j] = "idle"
    /\ \A k \in Slots : k < j => pc[k] # "idle"    \* slots are handed out in order
    /\ req' = [req EXCEPT ![j] = r]
    /\ hist' = [hist EXCEPT ![j].x_api_key = <<x_api_key>>]
    /\ LET verdict == verify_api_key(x_api_key, environ)
       IN  IF verdict = 200
           THEN /\ start_time' = [start_time EXCEPT ![j] = now]
                /\ pc' = [pc EXCEPT ![j] = "create"]
                /\ UNCHANGED http
           ELSE \* HTTPException before get_executor() and execute_job
                /\ http' = [http EXCEPT ![j] = [status |-> verdict, body |-> <<>>]]
                /\ pc' = [pc EXCEPT ![j] = "done"]
                /\ UNCHANGED start_time
    /\ UNCHANGED <<now, fs, images, workspace, result, ret>>
    /\ UNCHANGED static

\* An orchestrator that never clones.
AfterCreate_no_clone(git_url) == "write"

\* The phase that follows workspace creation: `if git_url:`
AfterCreate(git_url) == IF git_url # NoUrl THEN "clone" ELSE "write"

\* workspace = self._create_workspace(job_id)
CreateWorkspace(j) ==
    /\ pc[j] = "create"
    /\ LET ws == WorkspaceName(req[j].job_id, now)
           h == Log(j, "create")
       IN  \/ /\ fs' = fs \cup {<<ws, Root>>}
              /\ workspace' = [workspace EXCEPT ![j] = ws]
              /\ pc' = [pc EXCEPT ![j] = AfterCreate(req[j].git_url)]
              /\ hist' = [hist EXCEPT ![j] = h]
              /\ UNCHANGED result
           \/ /\ Abort(j, Exc("OSError", "mkdir failed"), h)
              /\ UNCHANGED <<fs, workspace>>
    /\ UNCHANGED <<now, images, req, start_time, ret, http>>
    /\ UNCHANGED static

\* Ciphertexts: one that Fernet decrypts under the agent's key, one that it
\* rejects (InvalidToken).
GoodCipher == "gAAAAA-valid"
BadCipher == "garbage"
PlainToken == "ghp_token"

\* crypto.decrypt_string(encrypted) for a nonempty `encrypted`:
\* get_encryption_key raises ValueError when GRYT_ENCRYPTION_KEY is not set,
\* Fernet.decrypt raises InvalidToken on a ciphertext it cannot verify.
decrypt_string(encrypted, env) ==
    IF env.GRYT_ENCRYPTION_KEY = "unset" THEN [raised |-> "ValueError", token |-> ""]
    ELSE IF encrypted = GoodCipher THEN [raised |-> "none", token |-> PlainToken]
    ELSE [raised |-> "InvalidToken", token |-> ""]

\* git_url.startswith("https://")
StartsWithHttps(u) == u # <<>> /\ Head(u) = "https://"

\* git_url.replace("https://", f"https://{token}@"): every occurrence.
RECURSIVE ReplaceHttps(_, _)
ReplaceHttps(u, token) ==
    IF u = <<>> THEN <<>>
    ELSE IF Head(u) = "https://"
         THEN <<"https://", token, "@">> \o ReplaceHttps(Tail(u), token)
         ELSE <<Head(u)>> \o ReplaceHttps(Tail(u), token)

\* A _clone_repository that never applies the token.
CloneUrl_no_token(git_url, encrypted, env) ==
    [raised |-> "none", url |-> git_url,
     decrypt |-> IF encrypted = "None" THEN "none" ELSE decrypt_string(encrypted, env).raised]

\* A _clone_repository that lets a decryption failure escape.
CloneUrl_decrypt_raises(git_url, encrypted, env) ==
    IF encrypted = "None"
    THEN [raised |-> "none", url |-> git_url, decrypt |-> "none"]
    ELSE LET d == decrypt_string(encrypted, env) IN
         IF d.raised # "none"
         THEN [raised |-> d.raised, url |-> git_url, decrypt |-> d.raised]
         ELSE [raised |-> "none", decrypt |-> "none",
               url |-> IF StartsWithHttps(git_url) THEN ReplaceHttps(git_url, d.token)
                       ELSE git_url]

\* The first part of _clone_repository: git_url_with_auth.  `decrypt` is what
\* decrypt_string did ("none" when it was not called or returned a token),
\* `raised` an exception that leaves the function (there is none: the
\* except clause only logs a warning).
CloneUrl(git_url, encrypted, env) ==
    IF encrypted = "None"
    THEN [raised |-> "none", url |-> git_url, decrypt |-> "none"]
    ELSE LET d == decrypt_string(encrypted, env) IN
         IF d.raised # "none"
         THEN [raised |-> "none", url |-> git_url, decrypt |-> d.raised]
         ELSE [raised |-> "none", decrypt |-> "none",
               url |-> IF StartsWithHttps(git_url) THEN ReplaceHttps(git_url, d.token)
                       ELSE git_url]

\* self._clone_repository(...): one call of Repo.clone_from, then the
\* verification of the target directory.
CloneOutcomes == {"cloned", "no_git", "no_repo", "GitCommandError", "RuntimeError"}

CloneRepository(j) ==
    /\ pc[j] = "clone"
    /\ LET ws == workspace[j]
           cu == CloneUrl(req[j].git_url, req[j].github_token_encrypted, environ)
       IN  IF cu.raised # "none"
           THEN /\ Abort(j, Exc(cu.raised, "decryption failed"),
                         [Log(j, "clone") EXCEPT !.decrypt = cu.decrypt])
                /\ UNCHANGED fs
           ELSE
           \E o \in CloneOutcomes :
             LET made == CASE o = "cloned" -> {<<ws, Root>>, <<ws, RepoDir>>, <<ws, GitDir>>}
                           [] o = "no_git" -> {<<ws, Root>>, <<ws, RepoDir>>}
                           [] OTHER -> {}
                 f == fs \cup made
                 \* what clone_from left at the target, as the filesystem shows it
                 seen == IF o \in {"GitCommandError", "RuntimeError"} THEN o
                         ELSE IF ~Exists(f, ws, RepoDir) THEN "returned_no_repo"
                         ELSE IF ~Exists(f, ws, GitDir) THEN "returned_no_git"
                         ELSE "returned_repo"
                 h == [Log(j, "clone") EXCEPT !.clones = @ + 1, !.clone = seen,
                                              !.url = cu.url, !.decrypt = cu.decrypt]
             IN  \* git refuses to clone into an existing directory
                 /\ o \in {"cloned", "no_git"} => ~Exists(fs, ws, RepoDir)
                 /\ fs' = f
                 /\ IF o = "GitCommandError"
                    THEN Abort(j, Exc("JobExecutionError",
                                      "Failed to clone repository (GitCommandError): git"), h)
                    ELSE IF o = "RuntimeError"
                    THEN Abort(j, Exc("JobExecutionError",
                                      "Failed to clone repository: error"), h)
                    ELSE IF ~CloneValid(f, ws)
                    THEN Abort(j, Exc("JobExecutionError",
                                      "Failed to clone repository: Clone completed but repository directory is invalid"), h)
                    ELSE /\ pc' = [pc EXCEPT ![j] = "write"]
                         /\ hist' = [hist EXCEPT ![j] = h]
                         /\ UNCHANGED result
    /\ UNCHANGED <<now, images, req, workspace, start_time, ret, http>>
    /\ UNCHANGED static

\* self._write_pipeline_file(workspace, pipeline_b64)
WritePipelineFile(j) ==
    /\ pc[j] = "write"
    /\ LET ws == workspace[j]
           h == Log(j, "write")
           target == TargetDir(fs, ws)
       IN  \/ /\ req[j].pipeline_b64 = "invalid"
              /\ Abort(j, Exc("JobExecutionError", "Failed to write pipeline file: decode"), h)
              /\ UNCHANGED fs
           \/ /\ req[j].pipeline_b64 = "valid"
              /\ \/ /\ Exists(fs, ws, target)
                    /\ fs' = fs \cup {<<ws, target \o <<".gryt">> >>,
                                      <<ws, target \o <<"pipeline.py">> >>}
                    /\ pc' = [pc EXCEPT ![j] = "image"]
                    /\ hist' = [hist EXCEPT ![j] = [h EXCEPT !.wrote = target]]
                    /\ UNCHANGED result
                 \/ \* the target directory is gone, or the write fails
                    /\ Abort(j, Exc("JobExecutionError", "Failed to write pipeline file: os"), h)
                    /\ UNCHANGED fs
    /\ UNCHANGED <<now, images, req, workspace, start_time, ret, http>>
    /\ UNCHANGED static

\* image = docker_image or self.default_image
ImageOf(r) == IF r.docker_image # "None" THEN r.docker_image ELSE default_image

\* An _ensure_image that never pulls.
NeedsPull_never(lookup) == FALSE

\* _ensure_image pulls in its `except ImageNotFound` branch only.
NeedsPull(lookup) == lookup = "absent"

\* self._ensure_image(image): images.get, and images.pull when it is absent.
EnsureImage(j) ==
    /\ pc[j] = "image"
    /\ LET image == ImageOf(req[j])
           h0 == Log(j, "image")
       IN  \E lookup \in {"found", "absent", "APIError"}, pull \in {"pulled", "DockerException", "RuntimeError"} :
             LET h == [h0 EXCEPT !.lookup = lookup,
                                 !.pulls = IF NeedsPull(lookup) THEN <<image>> ELSE <<>>]
             IN  /\ lookup = "found" => image \in images
                 /\ lookup = "absent" => image \notin images
                 /\ ~NeedsPull(lookup) => pull = "pulled"
                 /\ IF lookup = "APIError"
                    THEN /\ Abort(j, Exc("APIError", "500 Server Error"), h)
                         /\ UNCHANGED images
                    ELSE IF NeedsPull(lookup) /\ pull = "DockerException"
                    THEN /\ Abort(j, Exc("JobExecutionError", "Failed to pull image"), h)
                         /\ UNCHANGED images
                    ELSE IF NeedsPull(lookup) /\ pull = "RuntimeError"
                    THEN /\ Abort(j, Exc("RuntimeError", "connection reset"), h)
                         /\ UNCHANGED images
                    ELSE /\ images' = IF NeedsPull(lookup) THEN images \cup {image} ELSE images
                         /\ pc' = [pc EXCEPT ![j] = "run"]
                         /\ hist' = [hist EXCEPT ![j] = h]
                         /\ UNCHANGED result
    /\ UNCHANGED <<now, fs, req, workspace, start_time, ret, http>>
    /\ UNCHANGED static

\* The return value of _run_in_container for a container that exited with
\* status 0 and wrote the bytes `output`; an exception record when decoding
\* raises.
ZeroExit(output) ==
    IF Decodable(output)
    THEN [raised |-> FALSE, success |-> TRUE, exit_code |-> 0,
          stdout |-> _clean_json_output(output), stderr |-> <<>>,
          e |-> Exc("none", "")]
    ELSE [raised |-> TRUE, success |-> FALSE, exit_code |-> 0, stdout |-> <<>>,
          stderr |-> <<>>, e |-> Exc("UnicodeDecodeError", "'utf-8' codec can't decode byte")]

\* The `except ContainerError` branch of _run_in_container: the container
\* exited with exit_status and the SDK captured the bytes `payload` of its
\* stderr stream.
NonzeroExit(exit_status, payload) ==
    IF payload = <<>>
    THEN [raised |-> FALSE, success |-> FALSE, exit_code |-> exit_status,
          stdout |-> <<>>, stderr |-> <<>>, e |-> Exc("none", "")]
    ELSE IF Decodable(payload)
    THEN [raised |-> FALSE, success |-> FALSE, exit_code |-> exit_status,
          stdout |-> payload, stderr |-> payload, e |-> Exc("none", "")]
    ELSE [raised |-> TRUE, success |-> FALSE, exit_code |-> 0, stdout |-> <<>>,
          stderr |-> <<>>, e |-> Exc("UnicodeDecodeError", "'utf-8' codec can't decode byte")]

\* env_vars or {}
OrEmpty(env_vars) == IF env_vars = NoneDict THEN {} ELSE env_vars

Keys(dict) == { p[1] : p \in dict }

\* {**base, **over}: the pairs of `over`, and those of `base` whose key
\* `over` does not have.
Merge(base, over) == { p \in base : p[1] \notin Keys(over) } \cup over

\* environment = {"GRYT_WORKSPACE": "/workspace", **env_vars}
Environment(env_vars) == Merge({<<"GRYT_WORKSPACE", "/workspace">>}, env_vars)

\* The CPU limit strings of the model; "None" is a limit that was not
\* supplied (None or the empty string, both falsy).
CpuLimits == {"None", "2", "0.5", "1.001", "abc"}

\* float(cpu_limit) raises ValueError for a string that is not a number.
IsNumber(c) == c \in {"2", "0.5", "1.001"}

\* int(float(cpu_limit) * 1e9) in IEEE-754 double arithmetic, as CPython
\* evaluates it: 1.001 * 1e9 is 1000999999.9999999, which int() truncates.
NanoCpus(c) ==
    CASE c = "2" -> 2000000000
      [] c = "0.5" -> 500000000
      [] c = "1.001" -> 1000999999

\* host_config_kwargs: a key that is not set is <<>>, a key that is set is a
\* one-element tuple.  `raised` is the exception of the conversion.
HostConfig(cpu_limit, memory_limit) ==
    IF cpu_limit # "None" /\ ~IsNumber(cpu_limit)
    THEN [raised |-> "ValueError", nano_cpus |-> <<>>, mem_limit |-> <<>>]
    ELSE [raised |-> "none",
          nano_cpus |-> IF cpu_limit # "None" THEN <<NanoCpus(cpu_limit)>> ELSE <<>>,
          mem_limit |-> IF memory_limit # "None" THEN <<memory_limit>> ELSE <<>>]

\* The host directory that _run_in_container binds to /workspace.
WorkDir(f, ws) == IF Exists(f, ws, RepoDir) THEN RepoDir ELSE Root

\* result = self._run_in_container(...), then the rest of the try branch.
RunInContainer(j, O, P) ==
    /\ pc[j] = "run"
    /\ LET image == ImageOf(req[j])
           work_dir == WorkDir(fs, workspace[j])
           hc == HostConfig(req[j].cpu_limit, req[j].memory_limit)
           h == [Log(j, "run") EXCEPT
                    !.ran = image, !.present = image \in images,
                    !.bound = work_dir,
                    !.found = Exists(fs, workspace[j], work_dir \o <<"pipeline.py">>),
                    !.environment = Environment(OrEmpty(req[j].env_vars)),
                    !.nano_cpus = hc.nano_cpus, !.mem_limit = hc.mem_limit]
           Finish(r, hx) ==
               IF r.raised
               THEN Abort(j, r.e, hx)
               ELSE /\ result' = [result EXCEPT ![j] =
                           RunResult(r.success, r.exit_code, r.stdout, r.stderr,
                                     start_time[j], now)]
                    /\ hist' = [hist EXCEPT ![j] = [hx EXCEPT !.phases = Append(@, "finalize")]]
                    /\ pc' = [pc EXCEPT ![j] = "cleanup"]
       IN  IF hc.raised # "none"
           THEN \* the conversion of cpu_limit raised before containers.run
                Abort(j, Exc(hc.raised, "could not convert string to float"), Log(j, "run"))
           ELSE
           \/ \E output \in O :
                Finish(ZeroExit(output), [h EXCEPT !.exit = <<0, output>>])
           \/ \E exit_status \in ExitStatuses, payload \in P :
                Finish(NonzeroExit(exit_status, payload),
                       [h EXCEPT !.exit = <<exit_status, payload>>])
           \/ Abort(j, Exc("JobExecutionError", "Docker execution failed"), h)
           \/ Abort(j, Exc("RuntimeError", "connection reset"), h)
    /\ UNCHANGED <<now, fs, images, req, workspace, start_time, ret, http>>
    /\ UNCHANGED static

\* The outcomes of the finally block: of chmod -R, of its sudo fallback and
\* of shutil.rmtree.  "raised" is an exception that _fix_permissions_recursive
\* does not catch.
CleanupOutcomes ==
    { <<"ok", "unused", "ok">>, <<"ok", "unused", "error">>,
      <<"failed", "ok", "ok">>, <<"failed", "ok", "error">>,
      <<"failed", "failed", "ok">>, <<"failed", "failed", "error">>,
      <<"raised", "unused", "skipped">> }

\* How _fix_permissions_recursive ended for the outcome o of the finally
\* block: "ok" (chmod -R succeeded), "sudo_ok" (chmod failed with one of the
\* three exceptions of the except clause and sudo chmod succeeded),
\* "sudo_failed" (both failed; the inner except Exception swallows it),
\* "raised" (chmod raised another exception, which leaves the function), or
\* "none" (not called).
FixOutcome(o) ==
    CASE o[1] = "ok" -> "ok"
      [] o[1] = "failed" /\ o[2] = "ok" -> "sudo_ok"
      [] o[1] = "failed" /\ o[2] = "failed" -> "sudo_failed"
      [] o[1] = "raised" -> "raised"
      [] OTHER -> "none"

\* The finally block of execute_job, whose chmod, sudo and rmtree end as one
\* of K, then the return to the endpoint and the HTTP answer.
Cleanup(j, K) ==
    /\ pc[j] = "cleanup"
    /\ LET ws == workspace[j]
           h == Log(j, "cleanup")
           Return(failed, outcome, o) ==
               /\ ret' = [ret EXCEPT ![j] = AfterFinally(result[j], failed)]
               /\ http' = [http EXCEPT ![j] =
                              Respond(req[j].job_id, AfterFinally(result[j], failed))]
               /\ hist' = [hist EXCEPT ![j] = [h EXCEPT !.cleanup = outcome,
                                                        !.fix = FixOutcome(o),
                                                        !.rmtree = o[3]]]
       IN  IF ws # NoPath /\ Exists(fs, ws, Root)
           THEN \E o \in K :
                  IF o[3] = "ok"
                  THEN fs' = rmtree(fs, ws) /\ Return(FALSE, "removed", o)
                  ELSE /\ fs' = fs
                       /\ Return(TRUE, IF o[1] = "raised" THEN "chmod_raised"
                                                           ELSE "rmtree_failed", o)
           ELSE fs' = fs /\ Return(FALSE, "skipped", <<"none", "unused", "none">>)
    /\ pc' = [pc EXCEPT ![j] = "done"]
    /\ UNCHANGED <<now, images, req, workspace, start_time, result>>
    /\ UNCHANGED static

\* The characters of a captured stdout.
JsonChars == {" ", FormFeed, "1", "[", "]", ",", "o"}

\* Every text of at most n characters.
Texts(n) == UNION { [1..k -> JsonChars] : k \in 0..n }

\* output = _clean_json_output(output) on the captured stdout.
JsonClean ==
    /\ json.stage = "input"
    /\ json' = [json EXCEPT !.stage = "once", !.once = _clean_json_output(json.output)]
    /\ UNCHANGED <<now, fs, images, pc, req, workspace, start_time, result, ret, http,
                   hist, environ, agent>>

\* The normalized text is normalized once more.
JsonCleanAgain ==
    /\ json.stage = "once"
    /\ json' = [json EXCEPT !.stage = "twice", !.twice = _clean_json_output(json.once)]
    /\ UNCHANGED <<now, fs, images, pc, req, workspace, start_time, result, ret, http,
                   hist, environ, agent>>

---------------------------------------------------------------------------
(* Specifications *)

\* The steps of the executions J, whose requests are drawn from R and whose
\* containers emit an output of O or a stderr payload of P, while the clock
\* runs up to T, the cleanups end as one of K and the requests carry an
\* X-API-Key header of X.
Step(J, R, O, P, T, K, X) ==
    \/ Lifespan
    \/ Tick(T)
    \/ \E j \in J, r \in R, x \in X : Submit(j, r, x)
    \/ \E j \in J : CreateWorkspace(j)
    \/ \E j \in J : CloneRepository(j)
    \/ \E j \in J : WritePipelineFile(j)
    \/ \E j \in J : EnsureImage(j)
    \/ \E j \in J : RunInContainer(j, O, P)
    \/ \E j \in J : Cleanup(j, K)

\* One request at a time, every kind of request.
Next == Step({1}, Requests, RunOutputs, ErrPayloads, MaxTime, CleanupOutcomes, {ApiKey})

Spec == Init /\ [][Next]_vars

\* Source checkouts: every kind of URL and of credential.
FetchRequests ==
    With([job_id : {7}, git_url : {NoUrl, HttpsUrl, SshUrl, NestedUrl},
          github_token_encrypted : {"None", GoodCipher, BadCipher},
          pipeline_b64 : {"valid"}, docker_image : {"None"}],
         [env_vars : {NoneDict}, cpu_limit : {"None"}, memory_limit : {"None"}])

NextFetch == Step({1}, FetchRequests, {<<"o", "k">>}, {<<"E">>}, MaxTime, CleanupOutcomes, {ApiKey})

SpecFetch == Init /\ [][NextFetch]_vars

\* Container runs: every kind of environment map and of resource limit.
EnvMaps ==
    { NoneDict, {}, {<<"A", "1">>}, {<<"GRYT_WORKSPACE", "/other">>},
      {<<"A", "1">>, <<"GRYT_WORKSPACE", "/workspace">>} }

RunRequests ==
    With([job_id : {7}, git_url : GitUrls, pipeline_b64 : {"valid"},
          docker_image : {"None"}, github_token_encrypted : {"None"}],
         [env_vars : EnvMaps, cpu_limit : CpuLimits, memory_limit : {"None", "512m"}])

NextRun == Step({1}, RunRequests, {<<"o", "k">>}, {<<"E">>}, MaxTime, CleanupOutcomes, {ApiKey})

SpecRun == Init /\ [][NextRun]_vars

\* One request at a time under a wall clock that can also be set back.
NextClock ==
    \/ Step({1}, ConcRequests, {<<"o", "k">>}, {<<"E">>}, MaxTime, CleanupOutcomes, {ApiKey})
    \/ ClockStepBack

SpecClock == Init /\ [][NextClock]_vars

\* The normalization of every short stdout, on its own.
InitJson ==
    /\ environ = [GRYT_ENCRYPTION_KEY |-> "key", AGENT_API_KEY |-> ApiKey]
    /\ agent = "ready"
    /\ json \in [stage : {"input"}, output : Texts(MaxLen), once : {<<>>}, twice : {<<>>}]
    /\ now = 0
    /\ fs = {}
    /\ images = {}
    /\ pc = [j \in Slots |-> "idle"]
    /\ req = [j \in Slots |-> NoReq]
    /\ workspace = [j \in Slots |-> NoPath]
    /\ start_time = [j \in Slots |-> 0]
    /\ result = [j \in Slots |-> NoResult]
    /\ ret = [j \in Slots |-> NoResult]
    /\ http = [j \in Slots |-> NoHttp]
    /\ hist = [j \in Slots |-> NoHist]

NextJson == JsonClean \/ JsonCleanAgain

SpecJson == InitJson /\ [][NextJson]_vars

\* Requests with every kind of X-API-Key header, to an agent with every kind
\* of AGENT_API_KEY.
InitAuth ==
    /\ environ \in AuthEnvirons
    /\ agent = "starting"
    /\ json = NoJson
    /\ now = 0
    /\ fs = {}
    /\ images \in SUBSET Images
    /\ pc = [j \in Slots |-> "idle"]
    /\ req = [j \in Slots |-> NoReq]
    /\ workspace = [j \in Slots |-> NoPath]
    /\ start_time = [j \in Slots |-> 0]
    /\ result = [j \in Slots |-> NoResult]
    /\ ret = [j \in Slots |-> NoResult]
    /\ http = [j \in Slots |-> NoHttp]
    /\ hist = [j \in Slots |-> NoHist]

NextAuth ==
    Step({1}, ConcRequests, {<<"o", "k">>}, {<<"E">>}, MaxTime, CleanupOutcomes,
         ApiKeyHeaders)

SpecAuth == InitAuth /\ [][NextAuth]_vars

\* Two executions in flight at once.
InitConc ==
    /\ Init
    /\ images \subseteq {default_image}
    /\ environ.GRYT_ENCRYPTION_KEY = "key"

\* One way to each end of the finally block: removed, rmtree failed, chmod
\* raised.
ConcCleanupOutcomes ==
    { <<"ok", "unused", "ok">>, <<"ok", "unused", "error">>,
      <<"raised", "unused", "skipped">> }

NextConc ==
    Step(Slots, ConcRequests, {<<"o", "k">>}, {<<"E">>}, ConcMaxTime, ConcCleanupOutcomes, {ApiKey})

SpecConc == InitConc /\ [][NextConc]_vars

TypeOK ==
    /\ now \in 0..(IF MaxTime > ConcMaxTime THEN MaxTime ELSE ConcMaxTime)
    /\ pc \in [Slots -> {"idle", "create", "clone", "write", "image", "run", "cleanup", "done"}]
    /\ images \subseteq Images

---------------------------------------------------------------------------
(* Properties *)

Returned(j) == pc[j] = "done"

CleanupFailed(j) == hist[j].cleanup \in {"chmod_raised", "rmtree_failed"}

\* Another execution was handed the same workspace path and is still in
\* flight, or left the directory behind itself.
SharedWith(j) ==
    \E k \in Slots \ {j} :
        /\ workspace[k] = workspace[j]
        /\ ~Returned(k) \/ CleanupFailed(k)

\* C1 (as stated): once execute_job has returned, the job's workspace
\* directory does not exist, whatever way the job ended.
C1_WorkspaceAbsentAfterReturn ==
    \A j \in Slots :
        Returned(j) /\ workspace[j] # NoPath => ~Exists(fs, workspace[j], Root)

\* C1 (amended): once execute_job has returned, the job's workspace directory
\* does not exist unless the cleanup itself failed, or another execution
\* with the same workspace path is still running or failed its own cleanup.
C1_WorkspaceAbsentUnlessCleanupFailed ==
    \A j \in Slots :
        Returned(j) /\ workspace[j] # NoPath /\ Exists(fs, workspace[j], Root)
            => CleanupFailed(j) \/ SharedWith(j)

\* C1 witness: a job that created its workspace has returned after a
\* successful removal, and the directory is gone.
C1_Witness ==
    \E j \in Slots :
        /\ Returned(j) /\ workspace[j] # NoPath
        /\ hist[j].cleanup = "removed"
        /\ ~Exists(fs, workspace[j], Root)

\* C2: when a phase of execute_job raised, execute_job returned (did not
\* raise) the record success=false, exit_code=-1, stdout empty, stderr = the
\* error message, with the three time fields, and the endpoint answered 200
\* with that record.
C2_PhaseFailureBecomesRecord ==
    \A j \in Slots :
        Returned(j) /\ hist[j].failed # "none" =>
            /\ ret[j].kind = "return"
            /\ ret[j].success = FALSE
            /\ ret[j].exit_code = -1
            /\ ret[j].stdout = <<>>
            /\ ret[j].stderr = hist[j].msg
            /\ ret[j].started_at = isoformat(start_time[j])
            /\ ret[j].completed_at # <<>>
            /\ ret[j].duration_seconds \in Int
            /\ http[j].status = 200
            /\ Len(http[j].body) = 1
            /\ LET b == http[j].body[1] IN
                 /\ b.job_id = req[j].job_id
                 /\ b.success = FALSE /\ b.exit_code = -1
                 /\ b.stdout = <<>> /\ b.stderr = hist[j].msg
                 /\ b.started_at = ret[j].started_at
                 /\ b.completed_at = ret[j].completed_at
                 /\ b.duration_seconds = ret[j].duration_seconds

\* C2 witness: a phase raised an exception that is not a JobExecutionError,
\* and the request was answered.
C2_Witness ==
    \E j \in Slots :
        /\ Returned(j) /\ hist[j].failed = "create"
        /\ http[j].status = 200

\* The container of execution j exited (with any status).
Exited(j) == hist[j].exit # <<>>

\* C3: whenever the container exited with a nonzero status, execute_job
\* returned success=false, exit_code = that status, and a nonempty stderr,
\* stdout and stderr both being the captured error payload.
C3_NonzeroExitReported ==
    \A j \in Slots :
        Returned(j) /\ Exited(j) /\ hist[j].exit[1] # 0 =>
            /\ ret[j].kind = "return"
            /\ ret[j].success = FALSE
            /\ ret[j].exit_code = hist[j].exit[1]
            /\ ret[j].stderr # <<>>
            /\ ret[j].stderr = hist[j].exit[2]
            /\ ret[j].stdout = hist[j].exit[2]

\* Execution j holds a workspace and has not returned yet.
InFlight(j) == workspace[j] # NoPath /\ ~Returned(j)

\* C4: two executions in flight never hold the same workspace path.
C4_DistinctWorkspaces ==
    \A j, k \in Slots :
        j # k /\ InFlight(j) /\ InFlight(k) => workspace[j] # workspace[k]

\* C5: execute_job never raises and returns exactly the record computed
\* before the cleanup began, whether the cleanup succeeded or failed.
C5_CleanupNeverSurfaces ==
    \A j \in Slots :
        Returned(j) => ret[j].kind = "return" /\ ret[j] = result[j]

\* C5 witness: an execution has returned after a failed cleanup.
C5_Witness ==
    \E j \in Slots : Returned(j) /\ CleanupFailed(j)

\* The fixed order of the phases of one job.
PhaseOrder == <<"create", "clone", "write", "image", "run", "finalize", "cleanup">>

Rank(p) == CHOOSE i \in 1..Len(PhaseOrder) : PhaseOrder[i] = p

Attempted(j, p) == \E i \in 1..Len(hist[j].phases) : hist[j].phases[i] = p

\* Phase p of execution j was attempted and did not fail.
Succeeded(j, p) == Attempted(j, p) /\ hist[j].failed # p

\* C6: the phases of a job occur in the fixed order, each at most once; the
\* clone is attempted exactly when a source URL is given (and the workspace
\* was created); a phase starts only after its predecessor succeeded; the
\* container run starts only after creation, clone (if requested), pipeline
\* write and image provisioning succeeded; after a failure only result
\* finalization and cleanup follow.
C6_PhaseOrder ==
    \A j \in Slots :
        LET ph == hist[j].phases IN
        /\ \A a, b \in 1..Len(ph) : a < b => Rank(ph[a]) < Rank(ph[b])
        /\ Attempted(j, "clone") => req[j].git_url # NoUrl
        /\ Attempted(j, "write") /\ req[j].git_url # NoUrl => Succeeded(j, "clone")
        /\ Attempted(j, "write") => Succeeded(j, "create")
        /\ Attempted(j, "clone") => Succeeded(j, "create")
        /\ Attempted(j, "image") => Succeeded(j, "write")
        /\ Attempted(j, "run") => Succeeded(j, "image")
        /\ Attempted(j, "finalize") => hist[j].failed # "none" \/ Succeeded(j, "run")
        /\ Attempted(j, "cleanup") => Attempted(j, "finalize")
        /\ \A a \in 1..Len(ph) :
             ph[a] = hist[j].failed =>
                \A b \in (a + 1)..Len(ph) : ph[b] \in {"finalize", "cleanup"}
        /\ Returned(j) => Attempted(j, "cleanup")

\* C6 witness: a job with a source URL went through every phase.
C6_Witness ==
    \E j \in Slots :
        Returned(j) /\ req[j].git_url # NoUrl /\ hist[j].phases = PhaseOrder

\* C7: whenever the container exited with status zero, the result has
\* success=true, exit_code=0, stderr empty and stdout = the captured output,
\* compacted when it is a JSON document.
C7_ZeroExitSucceeds ==
    \A j \in Slots :
        Returned(j) /\ Exited(j) /\ hist[j].exit[1] = 0 =>
            /\ ret[j].kind = "return"
            /\ ret[j].success = TRUE
            /\ ret[j].exit_code = 0
            /\ ret[j].stderr = <<>>
            /\ ret[j].stdout = _clean_json_output(hist[j].exit[2])

\* C8: in every returned record success holds exactly when exit_code is 0,
\* and exit_code is -1 only when an exception aborted the job, never for a
\* container that ran to a nonzero exit.
C8_SuccessIffZero ==
    \A j \in Slots :
        Returned(j) =>
            /\ ret[j].kind = "return"
            /\ ret[j].success <=> ret[j].exit_code = 0
            /\ ret[j].exit_code = -1 =>
                 /\ hist[j].failed # "none"
                 /\ ~(Exited(j) /\ hist[j].exit[1] # 0)

\* C9: the container run starts only with the requested image, present
\* locally; the image is pulled exactly when the local lookup reports it
\* absent; when the pull (or the lookup) fails no container is started and
\* the job ends with the exit_code=-1 failure record.
C9_ImagePresentBeforeRun ==
    \A j \in Slots :
        /\ hist[j].ran # "none" => hist[j].ran = ImageOf(req[j]) /\ hist[j].present
        /\ hist[j].lookup = "absent" => hist[j].pulls = <<ImageOf(req[j])>>
        /\ hist[j].lookup # "absent" => hist[j].pulls = <<>>
        /\ hist[j].failed = "image" =>
             /\ hist[j].ran = "none"
             /\ Returned(j) => ret[j].kind = "return" /\ ret[j].exit_code = -1
                                 /\ ret[j].success = FALSE

\* C9 witness: the image was absent, was pulled, and the container ran.
C9_Witness ==
    \E j \in Slots :
        /\ hist[j].lookup = "absent" /\ hist[j].pulls # <<>>
        /\ hist[j].ran # "none" /\ Returned(j)

\* The messages of the exception that _clone_repository raises.
FetchDiagnostics ==
    { <<"Failed to clone repository (GitCommandError): git">>,
      <<"Failed to clone repository: error">>,
      <<"Failed to clone repository: Clone completed but repository directory is invalid">> }

\* Everything C10 says of a failed fetch but the fate of the workspace.
FetchFailureReported(j) ==
    /\ hist[j].clone \in {"GitCommandError", "RuntimeError", "returned_no_repo",
                          "returned_no_git"} => hist[j].failed = "clone"
    /\ hist[j].failed = "clone" =>
         /\ hist[j].clones = 1
         /\ ~Attempted(j, "write") /\ ~Attempted(j, "image") /\ ~Attempted(j, "run")
         /\ Returned(j) =>
              /\ ret[j].kind = "return"
              /\ ret[j].success = FALSE /\ ret[j].exit_code = -1
              /\ ret[j].stderr \in FetchDiagnostics

\* C10 (as stated): when the clone fails, or returns without a repository
\* directory carrying .git, the job ends with success=false, exit_code=-1
\* and the fetch diagnostic in stderr, after exactly one clone attempt and
\* no later phase, and no workspace directory remains.
C10_FetchFailure ==
    \A j \in Slots :
        /\ FetchFailureReported(j)
        /\ hist[j].failed = "clone" /\ Returned(j) => ~Exists(fs, workspace[j], Root)

\* C10 (amended): as C10, but the workspace directory may remain when the
\* cleanup itself failed, or when another execution with the same workspace
\* path is still running or failed its own cleanup.
C10_FetchFailureUnlessCleanupFailed ==
    \A j \in Slots :
        /\ FetchFailureReported(j)
        /\ hist[j].failed = "clone" /\ Returned(j) /\ Exists(fs, workspace[j], Root)
             => CleanupFailed(j) \/ SharedWith(j)

\* C10 witness: a clone that returned a directory without .git ended the job,
\* and the workspace was removed.
C10_Witness ==
    \E j \in Slots :
        /\ Returned(j) /\ hist[j].clone = "returned_no_git"
        /\ hist[j].failed = "clone" /\ hist[j].cleanup = "removed"
        /\ ~Exists(fs, workspace[j], Root)

\* A credential came with the request of execution j.
Credential(j) == req[j].github_token_encrypted # "None"

\* The credential of execution j can be decrypted by this agent.
Decrypts(j) ==
    req[j].github_token_encrypted = GoodCipher /\ environ.GRYT_ENCRYPTION_KEY = "key"

\* Repo.clone_from was called by execution j.
CloneCalled(j) == hist[j].clones > 0

\* url with the token put into its authority component.
TokenInAuthority(url) == <<"https://", PlainToken, "@">> \o Tail(url)

\* The clone phase of execution j failed only if clone_from or the
\* verification of its result failed.
FailsOnlyByClone(j) ==
    hist[j].failed = "clone" => hist[j].clone \notin {"none", "returned_repo"}

C14_MissingKeyFatalAtStartup ==
    \A j \in Slots :
        /\ pc[j] # "idle" => environ.GRYT_ENCRYPTION_KEY # "unset"
        /\ hist[j].decrypt # "ValueError"

\* C20: when a credential is supplied and its decryption fails (bad
\* ciphertext or missing key), the job goes on: the clone is called once with
\* the unmodified URL, and the job fails in the clone phase only if the clone
\* itself failed.
C20_DecryptFailureIgnored ==
    \A j \in Slots :
        Credential(j) /\ ~Decrypts(j) =>
            /\ hist[j].failed = "none" /\ Attempted(j, "write") /\ req[j].git_url # NoUrl
                 => CloneCalled(j)
            /\ Attempted(j, "clone") =>
                 /\ hist[j].clones = 1
                 /\ hist[j].url = req[j].git_url
                 /\ hist[j].decrypt \in {"ValueError", "InvalidToken"}
                 /\ FailsOnlyByClone(j)

\* C20 witness: a job whose credential could not be decrypted ran to a
\* successful end.
C20_Witness ==
    \E j \in Slots :
        /\ Returned(j) /\ Credential(j) /\ ~Decrypts(j)
        /\ hist[j].decrypt = "InvalidToken"
        /\ hist[j].url = req[j].git_url /\ req[j].git_url = HttpsUrl
        /\ ret[j].success = TRUE

\* C12: the pipeline file and the metadata directory are written into the
\* checkout root exactly when a source checkout occurred for this job, and
\* into the bare workspace root otherwise.
C12_WriteTarget ==
    \A j \in Slots :
        hist[j].wrote # NoDir =>
            /\ Succeeded(j, "clone") => hist[j].wrote = RepoDir
            /\ ~Succeeded(j, "clone") => hist[j].wrote = Root

\* C19: in every job that reaches the container run, the directory bound to
\* /workspace is the directory into which pipeline.py was written, and the
\* file is there.
C19_BoundDirHoldsPipeline ==
    \A j \in Slots :
        hist[j].bound # NoDir => hist[j].bound = hist[j].wrote /\ hist[j].found

\* containers.run was called by execution j.
RunCalled(j) == hist[j].ran # "none"

\* C13: the environment passed to the container contains every variable the
\* caller supplied and GRYT_WORKSPACE with the value /workspace.
C13_EnvironmentHasMountPoint ==
    \A j \in Slots :
        RunCalled(j) =>
            /\ Keys(OrEmpty(req[j].env_vars)) \subseteq Keys(hist[j].environment)
            /\ \A p \in OrEmpty(req[j].env_vars) :
                 p[1] # "GRYT_WORKSPACE" => p \in hist[j].environment
            /\ <<"GRYT_WORKSPACE", "/workspace">> \in hist[j].environment

\* c x 10^9 for the decimal string c.
TimesBillion(c) ==
    CASE c = "2" -> 2000000000
      [] c = "0.5" -> 500000000
      [] c = "1.001" -> 1001000000

\* C15: the runtime receives nano_cpus = c x 10^9 for a supplied CPU limit c,
\* the memory limit string unchanged when one is supplied, and no argument
\* for a limit that is not supplied.
C15_ResourceLimits ==
    \A j \in Slots :
        RunCalled(j) =>
            /\ hist[j].nano_cpus =
                 IF req[j].cpu_limit # "None" THEN <<TimesBillion(req[j].cpu_limit)>> ELSE <<>>
            /\ hist[j].mem_limit =
                 IF req[j].memory_limit # "None" THEN <<req[j].memory_limit>> ELSE <<>>

\* The finally block found the workspace and entered its try statement.
CleanupEntered(j) == Returned(j) /\ hist[j].cleanup \notin {"none", "skipped"}

\* shutil.rmtree(workspace) was called.
RemovalAttempted(j) == hist[j].rmtree \in {"ok", "error"}

\* C17: whenever the removal of a workspace is attempted, the recursive
\* permission fix of that workspace was attempted first, and a failure of
\* the permission fix (of chmod, or of its sudo fallback) never prevents the
\* removal from being attempted.
C17_FixThenRemove ==
    \A j \in Slots :
        /\ RemovalAttempted(j) => hist[j].fix # "none"
        /\ CleanupEntered(j) => RemovalAttempted(j)

\* The time that a timestamp of a result record denotes.
TimeOf(iso) == iso[2]

\* C18: in every result record, on success and on every failure path,
\* started_at is the time sampled on entry, before the first phase,
\* completed_at is the time sampled after the last executed phase and before
\* the cleanup, completed_at is not earlier than started_at, and
\* duration_seconds is completed_at minus started_at and is not negative.
C18_Timestamps ==
    \A j \in Slots :
        ret[j].kind = "return" =>
            /\ ret[j].started_at = isoformat(start_time[j])
            /\ hist[j].phases[Len(hist[j].phases) - 1] = "finalize"
            /\ TimeOf(ret[j].completed_at) >= TimeOf(ret[j].started_at)
            /\ ret[j].duration_seconds =
                   TimeOf(ret[j].completed_at) - TimeOf(ret[j].started_at)
            /\ ret[j].duration_seconds >= 0

\* The text is one JSON document: json.loads accepts it as it stands.
IsJson(text) == LoadsDumps(text).ok

\* The text without the whitespace of the JSON grammar.
WithoutWs(text) == SelectSeq(text, LAMBDA c : ~IsWs(c))

\* C16: for every captured stdout that parses as one JSON document the
\* normalized text is the same for all inputs that differ only in
\* whitespace, and normalizing the normalized text returns it unchanged; for
\* every stdout that does not parse as JSON, the normalized text equals the
\* input character for character.
C16_Normalization ==
    /\ json.stage \in {"once", "twice"} =>
           IF IsJson(json.output)
           THEN json.once = _clean_json_output(WithoutWs(json.output))
           ELSE json.once = json.output
    /\ json.stage = "twice" => json.twice = json.once

\* What does hold of the normalization: the same three properties with
\* "parses as JSON" read as "parses once str.strip() has been applied".
NormalizationOfStripped ==
    /\ json.stage \in {"once", "twice"} =>
           IF IsJson(Strip(json.output))
           THEN json.once = _clean_json_output(WithoutWs(Strip(json.output)))
           ELSE json.once = json.output
    /\ json.stage = "twice" => json.twice = json.once

\* Request j arrived at the endpoint.
Arrived(j) == hist[j].x_api_key # <<>>

\* A phase of execute_job was started for request j, or the job was entered.
PhaseStarted(j) ==
    \/ pc[j] \notin {"idle", "done"}
    \/ hist[j].phases # <<>>
    \/ workspace[j] # NoPath
    \/ ret[j] # NoResult

\* AGENT_API_KEY is set to a non-empty value.
Configured == environ.AGENT_API_KEY \notin {"unset", ""}

\* C21: a request to the job execution endpoint starts no job phase (no
\* workspace, clone, pull or container run) unless its X-API-Key header equals
\* the configured AGENT_API_KEY; a request with a mismatching key is answered
\* with 401, and a request to an agent without AGENT_API_KEY with 500.
C21_NoPhaseWithoutKey ==
    \A j \in Slots :
        Arrived(j) =>
            /\ PhaseStarted(j) =>
                   Configured /\ hist[j].x_api_key = <<environ.AGENT_API_KEY>>
            /\ Configured /\ hist[j].x_api_key # <<environ.AGENT_API_KEY>> =>
                   http[j].status = 401 /\ ~PhaseStarted(j)
            /\ ~Configured => http[j].status = 500 /\ ~PhaseStarted(j)
            /\ ~PhaseStarted(j) => fs = {}

\* A request with a wrong key was answered with 401 and left no trace.
C21_Witness ==
    /\ Configured
    /\ hist[1].x_api_key = <<"wrong">>
    /\ http[1].status = 401
    /\ pc[1] = "done"
    /\ fs = {}

====
